---- MODULE Spec2Model ----
(***************************************************************************)
(* Durak rules engine (packages/engine/src/game.ts): the game state, the   *)
(* deal, the legality queries and applyAction, as a state machine whose    *)
(* steps are the calls of applyAction by any player id with any action.    *)
(*                                                                         *)
(* Four specifications share the definitions.  Spec plays a scaled-down    *)
(* deck (two suits: the trump suit and one plain suit) exhaustively, to    *)
(* the end of every game.  SpecFull plays the program's own deck of 4      *)
(* suits and 9 ranks with hands of 6, for the first MaxCalls accepted      *)
(* calls of a game.  SpecDeep plays a deck of one rank more than Spec,     *)
(* exhaustively.  SpecServer plays a scaled-down deck through the          *)
(* message handlers of the server (packages/server/src/index.ts), where    *)
(* the bot answers every accepted action of the human.                     *)
(*                                                                         *)
(* Cards are records [suit, rank]; suit s is the s-th element of the suits *)
(* array of makeDeck and rank r is the value RANK_ORDER gives the rank.    *)
(* Arrays are sequences; a 0-based index i of the source is i + 1 here.    *)
(* Strings shown to the user are rendered in English.                      *)
(***************************************************************************)
EXTENDS Integers, Sequences, FiniteSets, TLC

VARIABLES
    dim,      \* deck geometry: number of suits, of ranks, and the hand limit
    state,    \* the GameState object
    discard,  \* history: cards cleared from the table by done (not stored by the code)
    calls,    \* history: number of accepted applyAction calls (counted in SpecFull)
    shuffled, \* history: the deck as shuffle returned it to startGame
    roomHumanId \* room.humanId of the server: the client in control

vars == <<dim, state, discard, calls, shuffled, roomHumanId>>

(***************************************************************************)
(* Bounds of the exploration.                                              *)
(***************************************************************************)
ModelRanks == 3
ModelHand == 2
NumSeeds == 2
FullSeeds == 5
MaxCalls == 6

\* the scaled-down deck has the trump suit and one plain suit
ModelSuits == 2

(***************************************************************************)
(* Program constants.                                                      *)
(***************************************************************************)
SUITS == 4
RANKS == 9
HAND_LIMIT == 6

ModelDim == [suits |-> ModelSuits, ranks |-> ModelRanks, hand |-> ModelHand]
FullDim == [suits |-> SUITS, ranks |-> RANKS, hand |-> HAND_LIMIT]

HumanId == "p1"
BotId == "bot"
StrangerId == "nobody"
PlayerIds == {HumanId, BotId, StrangerId}

NoCard == [suit |-> 0, rank |-> -1]
NoWinner == "undefined"

Suit == 1..dim.suits
Rank == 0..(dim.ranks - 1)
Card == [suit : Suit, rank : Rank]

(***************************************************************************)
(* Helpers on sequences.                                                   *)
(***************************************************************************)
Range(seq) == {seq[i] : i \in 1..Len(seq)}

RemoveAt(seq, i) == SubSeq(seq, 1, i - 1) \o SubSeq(seq, i + 1, Len(seq))

\* Array.prototype.findIndex for card equality, 1-based; 0 when absent
FindCard(hand, card) ==
    IF \E i \in 1..Len(hand) : hand[i].suit = card.suit /\ hand[i].rank = card.rank
    THEN CHOOSE i \in 1..Len(hand) :
            /\ hand[i].suit = card.suit /\ hand[i].rank = card.rank
            /\ \A k \in 1..(i - 1) : ~(hand[k].suit = card.suit /\ hand[k].rank = card.rank)
    ELSE 0

(***************************************************************************)
(* makeDeck: suits outer loop, ranks inner loop.                           *)
(***************************************************************************)
makeDeck ==
    [i \in 1..(dim.suits * dim.ranks) |->
        [suit |-> ((i - 1) \div dim.ranks) + 1, rank |-> (i - 1) % dim.ranks]]

(***************************************************************************)
(* Math.random: the stream of values drawn by one shuffle is that of a     *)
(* linear congruential generator started from a seed; random() = x / RndM. *)
(***************************************************************************)
RndM == 65537
RndA == 75
RndC == 74
RndNext(x) == (RndA * x + RndC) % RndM

\* Math.floor(Math.random() * n) for the generator value x
RandomIndex(x, n) == (x * n) \div RndM

Swap(a, i, j) == [a EXCEPT ![i] = a[j], ![j] = a[i]]

\* the loop of shuffle: i runs from a.length - 1 down to 1 (here i + 1)
RECURSIVE shuffleLoop(_, _, _)
shuffleLoop(a, i, x) ==
    IF i <= 1 THEN a
    ELSE LET x1 == RndNext(x)
             j == RandomIndex(x1, i) + 1
         IN shuffleLoop(Swap(a, i, j), i - 1, x1)

shuffle(arr, seed) == shuffleLoop(arr, Len(arr), seed)

(***************************************************************************)
(* isTrump, canBeat, sortHand.                                             *)
(***************************************************************************)
isTrump(card, trumpSuit) == card.suit = trumpSuit

\* canBeat comparing the ranks with >= instead of >
canBeat_orEqual(attack, defend, trumpSuit) ==
    IF attack.suit = defend.suit THEN defend.rank >= attack.rank
    ELSE IF isTrump(defend, trumpSuit) /\ ~isTrump(attack, trumpSuit) THEN TRUE
    ELSE FALSE

\* canBeat letting any higher card of a plain suit beat the attack
canBeat_anySuit(attack, defend, trumpSuit) ==
    IF attack.suit = defend.suit THEN defend.rank > attack.rank
    ELSE IF isTrump(defend, trumpSuit) /\ ~isTrump(attack, trumpSuit) THEN TRUE
    ELSE defend.rank > attack.rank

canBeat(attack, defend, trumpSuit) ==
    IF attack.suit = defend.suit THEN defend.rank > attack.rank
    ELSE IF isTrump(defend, trumpSuit) /\ ~isTrump(attack, trumpSuit) THEN TRUE
    ELSE FALSE

\* collation position of the suit symbols: spades, clubs, hearts, diamonds
SuitCollation(s) ==
    CASE s = 1 -> 1
      [] s = 2 -> 3
      [] s = 3 -> 4
      [] s = 4 -> 2
      [] OTHER -> s

\* the comparator of sortHand and botDecide
compareCards(a, b, trumpSuit) ==
    LET ta == isTrump(a, trumpSuit)
        tb == isTrump(b, trumpSuit)
    IN IF ta # tb THEN (IF ta THEN 1 ELSE -1)
       ELSE IF a.suit # b.suit THEN SuitCollation(a.suit) - SuitCollation(b.suit)
       ELSE a.rank - b.rank

\* stable insertion of c into a sorted sequence
RECURSIVE InsertSorted(_, _, _)
InsertSorted(sorted, c, trumpSuit) ==
    IF sorted = <<>> THEN <<c>>
    ELSE IF compareCards(c, sorted[Len(sorted)], trumpSuit) >= 0 THEN Append(sorted, c)
    ELSE Append(InsertSorted(SubSeq(sorted, 1, Len(sorted) - 1), c, trumpSuit),
                sorted[Len(sorted)])

RECURSIVE sortFrom(_, _, _, _)
sortFrom(hand, i, acc, trumpSuit) ==
    IF i > Len(hand) THEN acc
    ELSE sortFrom(hand, i + 1, InsertSorted(acc, hand[i], trumpSuit), trumpSuit)

sortHand(hand, trumpSuit) == sortFrom(hand, 1, <<>>, trumpSuit)

(***************************************************************************)
(* refillHands: attacker first, then defender, from the tail of the deck.  *)
(***************************************************************************)
\* drawLoop taking the cards from the head of the deck (shift for pop)
RECURSIVE drawLoop_fromHead(_, _)
drawLoop_fromHead(deck, hand) ==
    IF Len(hand) < dim.hand /\ Len(deck) > 0
    THEN drawLoop_fromHead(Tail(deck), Append(hand, deck[1]))
    ELSE [deck |-> deck, hand |-> hand]

\* drawLoop drawing one card too many (<= for <)
RECURSIVE drawLoop_offByOne(_, _)
drawLoop_offByOne(deck, hand) ==
    IF Len(hand) <= dim.hand /\ Len(deck) > 0
    THEN drawLoop_offByOne(SubSeq(deck, 1, Len(deck) - 1), Append(hand, deck[Len(deck)]))
    ELSE [deck |-> deck, hand |-> hand]

RECURSIVE drawLoop(_, _)
drawLoop(deck, hand) ==
    IF Len(hand) < dim.hand /\ Len(deck) > 0
    THEN drawLoop(SubSeq(deck, 1, Len(deck) - 1), Append(hand, deck[Len(deck)]))
    ELSE [deck |-> deck, hand |-> hand]

\* refillHands drawing for the defender before the attacker
refillHands_defenderFirst(s) ==
    LET d1 == drawLoop(s.deck, s.players[s.defender].hand)
        s1 == [s EXCEPT !.deck = d1.deck, !.players[s.defender].hand = d1.hand]
        d2 == drawLoop(s1.deck, s1.players[s1.attacker].hand)
        s2 == [s1 EXCEPT !.deck = d2.deck, !.players[s1.attacker].hand = d2.hand]
    IN [s2 EXCEPT !.players[0].hand = sortHand(s2.players[0].hand, s2.trumpSuit),
                  !.players[1].hand = sortHand(s2.players[1].hand, s2.trumpSuit)]

refillHands(s) ==
    LET d1 == drawLoop(s.deck, s.players[s.attacker].hand)
        s1 == [s EXCEPT !.deck = d1.deck, !.players[s.attacker].hand = d1.hand]
        d2 == drawLoop(s1.deck, s1.players[s1.defender].hand)
        s2 == [s1 EXCEPT !.deck = d2.deck, !.players[s1.defender].hand = d2.hand]
    IN [s2 EXCEPT !.players[0].hand = sortHand(s2.players[0].hand, s2.trumpSuit),
                  !.players[1].hand = sortHand(s2.players[1].hand, s2.trumpSuit)]

(***************************************************************************)
(* startGame.                                                              *)
(***************************************************************************)
\* startGame taking the trump card from the other end of the deck
newGame_firstCard(humanId, botId, deck) ==
    [deck |-> deck,
     trumpCard |-> deck[1],
     trumpSuit |-> deck[1].suit,
     players |-> [i \in {0, 1} |->
        IF i = 0 THEN [id |-> humanId, name |-> "You", type |-> "human", hand |-> <<>>]
                 ELSE [id |-> botId, name |-> "Bot", type |-> "bot", hand |-> <<>>]],
     attacker |-> 0,
     defender |-> 1,
     table |-> <<>>,
     phase |-> "attack",
     winnerId |-> NoWinner,
     message |-> ""]

\* the state startGame builds around the shuffled deck, before the deal
newGame(humanId, botId, deck) ==
    [deck |-> deck,
     trumpCard |-> deck[Len(deck)],
     trumpSuit |-> deck[Len(deck)].suit,
     players |-> [i \in {0, 1} |->
        IF i = 0 THEN [id |-> humanId, name |-> "You", type |-> "human", hand |-> <<>>]
                 ELSE [id |-> botId, name |-> "Bot", type |-> "bot", hand |-> <<>>]],
     attacker |-> 0,
     defender |-> 1,
     table |-> <<>>,
     phase |-> "attack",
     winnerId |-> NoWinner,
     message |-> ""]

\* startGame turning up the trump card after the deal, from the deck that is left
startGame_trumpAfterDeal(humanId, botId, seed) ==
    CHOOSE g \in {[s1 EXCEPT !.trumpCard = IF Len(s1.deck) > 0 THEN s1.deck[Len(s1.deck)] ELSE @,
                             !.trumpSuit = IF Len(s1.deck) > 0 THEN s1.deck[Len(s1.deck)].suit
                                           ELSE @] :
                    s1 \in {refillHands(newGame(humanId, botId, deck)) :
                                deck \in {shuffle(makeDeck, seed)}}} : TRUE

\* the deck is shuffled once and the state built from that one deck
startGame(humanId, botId, seed) ==
    CHOOSE g \in {refillHands(s0) :
                    s0 \in {newGame(humanId, botId, deck) : deck \in {shuffle(makeDeck, seed)}}} : TRUE

(***************************************************************************)
(* Legality queries.                                                       *)
(***************************************************************************)
ranksOnTable(s) ==
    {s.table[i].attack.rank : i \in 1..Len(s.table)}
        \cup {s.table[i].defend.rank : i \in {k \in 1..Len(s.table) : s.table[k].defend # NoCard}}

\* legalAttacks without the rank filter
legalAttacks_noRankFilter(s, playerIndex) ==
    IF (s.phase # "attack" /\ s.phase # "throw") \/ playerIndex # s.attacker THEN <<>>
    ELSE s.players[playerIndex].hand

\* legalAttacks also answering while a defense is pending
legalAttacks_whileDefending(s, playerIndex) ==
    IF (s.phase # "attack" /\ s.phase # "throw" /\ s.phase # "defend") \/ playerIndex # s.attacker THEN <<>>
    ELSE LET hand == s.players[playerIndex].hand
         IN IF Len(s.table) = 0 THEN hand
            ELSE LET ranks == ranksOnTable(s)
                     hasRank(c) == c.rank \in ranks
                 IN SelectSeq(hand, hasRank)

legalAttacks(s, playerIndex) ==
    IF (s.phase # "attack" /\ s.phase # "throw") \/ playerIndex # s.attacker THEN <<>>
    ELSE LET hand == s.players[playerIndex].hand
         IN IF Len(s.table) = 0 THEN hand
            ELSE LET ranks == ranksOnTable(s)
                     hasRank(c) == c.rank \in ranks
                 IN SelectSeq(hand, hasRank)

\* canAddAttack allowing one attack more than the defender holds cards
canAddAttack_oneMore(s) ==
    LET openCount == Len(s.table)
        defenderHand == Len(s.players[s.defender].hand)
    IN IF openCount > defenderHand THEN FALSE
       ELSE LET ranks == ranksOnTable(s)
                hand == s.players[s.attacker].hand
            IN (\E i \in 1..Len(hand) : hand[i].rank \in ranks) \/ Len(s.table) = 0

canAddAttack(s) ==
    LET openCount == Len(s.table)
        defenderHand == Len(s.players[s.defender].hand)
    IN IF openCount >= defenderHand THEN FALSE
       ELSE LET ranks == ranksOnTable(s)
                hand == s.players[s.attacker].hand
            IN (\E i \in 1..Len(hand) : hand[i].rank \in ranks) \/ Len(s.table) = 0

\* legalDefenses also answering after the defender has taken
legalDefenses_afterTake(s, playerIndex, attackIndex) ==
    IF (s.phase # "defend" /\ s.phase # "throw") \/ playerIndex # s.defender THEN <<>>
    ELSE IF ~(attackIndex + 1 \in 1..Len(s.table)) THEN <<>>
    ELSE LET slot == s.table[attackIndex + 1]
         IN IF slot.defend # NoCard THEN <<>>
            ELSE LET hand == s.players[playerIndex].hand
                     beatsIt(c) == canBeat(slot.attack, c, s.trumpSuit)
                 IN SelectSeq(hand, beatsIt)

legalDefenses(s, playerIndex, attackIndex) ==
    IF s.phase # "defend" \/ playerIndex # s.defender THEN <<>>
    ELSE IF ~(attackIndex + 1 \in 1..Len(s.table)) THEN <<>>
    ELSE LET slot == s.table[attackIndex + 1]
         IN IF slot.defend # NoCard THEN <<>>
            ELSE LET hand == s.players[playerIndex].hand
                     beatsIt(c) == canBeat(slot.attack, c, s.trumpSuit)
                 IN SelectSeq(hand, beatsIt)

\* removeCardFromHand: the hand without the first card equal to card
removeCardFromHand(hand, card) ==
    LET i == FindCard(hand, card)
    IN IF i >= 1 THEN [ok |-> TRUE, hand |-> RemoveAt(hand, i)]
       ELSE [ok |-> FALSE, hand |-> hand]

RECURSIVE tableCards(_)
tableCards(table) ==
    IF table = <<>> THEN <<>>
    ELSE LET slot == table[1]
         IN (IF slot.defend # NoCard THEN <<slot.attack, slot.defend>> ELSE <<slot.attack>>)
                \o tableCards(Tail(table))

\* moveTableToDefender forgetting the defend cards
moveTableToDefender_attackOnly(s) ==
    [s EXCEPT !.players[s.defender].hand =
                    @ \o [i \in 1..Len(s.table) |-> s.table[i].attack],
              !.table = <<>>]

\* moveTableToDefender leaving the cards on the table as well
moveTableToDefender_keepTable(s) ==
    [s EXCEPT !.players[s.defender].hand = @ \o tableCards(s.table)]

moveTableToDefender(s) ==
    [s EXCEPT !.players[s.defender].hand = @ \o tableCards(s.table),
              !.table = <<>>]

\* checkFinish naming the player who still holds cards
checkFinish_wrongWinner(s) ==
    LET deckEmpty == Len(s.deck) = 0
        p0Empty == Len(s.players[0].hand) = 0
        p1Empty == Len(s.players[1].hand) = 0
    IN IF deckEmpty /\ (p0Empty \/ p1Empty)
       THEN IF p0Empty /\ p1Empty
            THEN [s EXCEPT !.phase = "finished", !.winnerId = NoWinner, !.message = "Draw"]
            ELSE IF p0Empty
            THEN [s EXCEPT !.phase = "finished", !.winnerId = s.players[1].id,
                           !.message = "Bot won"]
            ELSE [s EXCEPT !.phase = "finished", !.winnerId = s.players[0].id,
                           !.message = "You won"]
       ELSE s

\* checkFinish setting winnerId as soon as a hand is empty, the phase only with an empty deck
checkFinish_earlyWinner(s) ==
    LET deckEmpty == Len(s.deck) = 0
        p0Empty == Len(s.players[0].hand) = 0
        p1Empty == Len(s.players[1].hand) = 0
    IN IF p0Empty \/ p1Empty
       THEN LET w == IF p0Empty /\ p1Empty THEN NoWinner
                     ELSE IF p0Empty THEN s.players[0].id ELSE s.players[1].id
            IN IF deckEmpty
               THEN [s EXCEPT !.phase = "finished", !.winnerId = w, !.message = "game over"]
               ELSE [s EXCEPT !.winnerId = w]
       ELSE s

\* checkFinish waiting until no attack on the table is open
checkFinish_afterDefense(s) ==
    LET deckEmpty == Len(s.deck) = 0
        p0Empty == Len(s.players[0].hand) = 0
        p1Empty == Len(s.players[1].hand) = 0
    IN IF deckEmpty /\ (p0Empty \/ p1Empty)
          /\ (\A i \in 1..Len(s.table) : s.table[i].defend # NoCard)
       THEN IF p0Empty /\ p1Empty
            THEN [s EXCEPT !.phase = "finished", !.winnerId = NoWinner, !.message = "Draw"]
            ELSE IF p0Empty
            THEN [s EXCEPT !.phase = "finished", !.winnerId = s.players[0].id,
                           !.message = "You won"]
            ELSE [s EXCEPT !.phase = "finished", !.winnerId = s.players[1].id,
                           !.message = "Bot won"]
       ELSE s

checkFinish(s) ==
    LET deckEmpty == Len(s.deck) = 0
        p0Empty == Len(s.players[0].hand) = 0
        p1Empty == Len(s.players[1].hand) = 0
    IN IF deckEmpty /\ (p0Empty \/ p1Empty)
       THEN IF p0Empty /\ p1Empty
            THEN [s EXCEPT !.phase = "finished", !.winnerId = NoWinner, !.message = "Draw"]
            ELSE IF p0Empty
            THEN [s EXCEPT !.phase = "finished", !.winnerId = s.players[0].id,
                           !.message = "You won"]
            ELSE [s EXCEPT !.phase = "finished", !.winnerId = s.players[1].id,
                           !.message = "Bot won"]
       ELSE s

\* advanceIfNeeded without the finish check
advanceIfNeeded_noCheck(s) == s

advanceIfNeeded(s) == checkFinish(s)

(***************************************************************************)
(* Actions of the players and applyAction.                                 *)
(***************************************************************************)
ActionAttack(card) == [kind |-> "attack", card |-> card, attackIndex |-> 0]
ActionDefend(attackIndex, card) == [kind |-> "defend", card |-> card, attackIndex |-> attackIndex]
ActionTake == [kind |-> "take", card |-> NoCard, attackIndex |-> 0]
ActionDone == [kind |-> "done", card |-> NoCard, attackIndex |-> 0]
ActionUnknown == [kind |-> "pass", card |-> NoCard, attackIndex |-> 0]

Reject(error, s) == [ok |-> FALSE, error |-> error, state |-> s, thrown |-> FALSE]
Accept(s) == [ok |-> TRUE, error |-> "", state |-> s, thrown |-> FALSE]

\* the call raises a TypeError (action.card is undefined and .suit is read
\* from it); no ApplyResult is returned and the state object is as it was
Throw(s) == [ok |-> FALSE, error |-> "TypeError", state |-> s, thrown |-> TRUE]

\* state.players.findIndex((p) => p.id === playerId)
findPlayer(s, playerId) ==
    IF s.players[0].id = playerId THEN 0
    ELSE IF s.players[1].id = playerId THEN 1
    ELSE -1

\* attack putting the new slot at the front of the table
applyAttack_front(s, me, action) ==
    IF me # s.attacker THEN Reject("not your turn to attack", s)
    ELSE LET legal == legalAttacks(s, me)
             allowed == \E i \in 1..Len(legal) :
                            legal[i].suit = action.card.suit /\ legal[i].rank = action.card.rank
         IN IF Len(legal) > 0 /\ action.card = NoCard THEN Throw(s)
            ELSE IF ~allowed THEN Reject("cannot attack with this card now", s)
            ELSE IF s.phase = "throw" /\ ~canAddAttack(s)
            THEN Reject("cannot throw in more (defender hand limit)", s)
            ELSE LET rm == removeCardFromHand(s.players[me].hand, action.card)
                 IN IF ~rm.ok THEN Reject("card not in hand", s)
                    ELSE LET s1 == [s EXCEPT !.players[me].hand = rm.hand,
                                             !.table = <<[attack |-> action.card,
                                                          defend |-> NoCard]>> \o @]
                             s2 == IF s1.phase # "throw"
                                   THEN [s1 EXCEPT !.phase = "defend",
                                                   !.message = "attack more or wait for defense"]
                                   ELSE [s1 EXCEPT !.phase = "throw",
                                                   !.message = "throw in or finish the turn"]
                         IN Accept(advanceIfNeeded(s2))

\* attack leaving the phase as it was
applyAttack_keepPhase(s, me, action) ==
    IF me # s.attacker THEN Reject("not your turn to attack", s)
    ELSE LET legal == legalAttacks(s, me)
             allowed == \E i \in 1..Len(legal) :
                            legal[i].suit = action.card.suit /\ legal[i].rank = action.card.rank
         IN IF Len(legal) > 0 /\ action.card = NoCard THEN Throw(s)
            ELSE IF ~allowed THEN Reject("cannot attack with this card now", s)
            ELSE IF s.phase = "throw" /\ ~canAddAttack(s)
            THEN Reject("cannot throw in more (defender hand limit)", s)
            ELSE LET rm == removeCardFromHand(s.players[me].hand, action.card)
                 IN IF ~rm.ok THEN Reject("card not in hand", s)
                    ELSE LET s1 == [s EXCEPT !.players[me].hand = rm.hand,
                                             !.table = Append(@, [attack |-> action.card,
                                                                  defend |-> NoCard])]
                             s2 == IF s1.phase # "throw"
                                   THEN [s1 EXCEPT !.phase = s1.phase,
                                                   !.message = "attack more or wait for defense"]
                                   ELSE [s1 EXCEPT !.phase = "throw",
                                                   !.message = "throw in or finish the turn"]
                         IN Accept(advanceIfNeeded(s2))

\* attack returning without the finish check
applyAttack_noAdvance(s, me, action) ==
    IF me # s.attacker THEN Reject("not your turn to attack", s)
    ELSE LET legal == legalAttacks(s, me)
             allowed == \E i \in 1..Len(legal) :
                            legal[i].suit = action.card.suit /\ legal[i].rank = action.card.rank
         IN IF Len(legal) > 0 /\ action.card = NoCard THEN Throw(s)
            ELSE IF ~allowed THEN Reject("cannot attack with this card now", s)
            ELSE IF s.phase = "throw" /\ ~canAddAttack(s)
            THEN Reject("cannot throw in more (defender hand limit)", s)
            ELSE LET rm == removeCardFromHand(s.players[me].hand, action.card)
                 IN IF ~rm.ok THEN Reject("card not in hand", s)
                    ELSE LET s1 == [s EXCEPT !.players[me].hand = rm.hand,
                                             !.table = Append(@, [attack |-> action.card,
                                                                  defend |-> NoCard])]
                             s2 == IF s1.phase # "throw"
                                   THEN [s1 EXCEPT !.phase = "defend",
                                                   !.message = "attack more or wait for defense"]
                                   ELSE [s1 EXCEPT !.phase = "throw",
                                                   !.message = "throw in or finish the turn"]
                         IN Accept(s2)

applyAttack(s, me, action) ==
    IF me # s.attacker THEN Reject("not your turn to attack", s)
    ELSE LET legal == legalAttacks(s, me)
             allowed == \E i \in 1..Len(legal) :
                            legal[i].suit = action.card.suit /\ legal[i].rank = action.card.rank
         IN IF Len(legal) > 0 /\ action.card = NoCard THEN Throw(s)
            ELSE IF ~allowed THEN Reject("cannot attack with this card now", s)
            ELSE IF s.phase = "throw" /\ ~canAddAttack(s)
            THEN Reject("cannot throw in more (defender hand limit)", s)
            ELSE LET rm == removeCardFromHand(s.players[me].hand, action.card)
                 IN IF ~rm.ok THEN Reject("card not in hand", s)
                    ELSE LET s1 == [s EXCEPT !.players[me].hand = rm.hand,
                                             !.table = Append(@, [attack |-> action.card,
                                                                  defend |-> NoCard])]
                             s2 == IF s1.phase # "throw"
                                   THEN [s1 EXCEPT !.phase = "defend",
                                                   !.message = "attack more or wait for defense"]
                                   ELSE [s1 EXCEPT !.phase = "throw",
                                                   !.message = "throw in or finish the turn"]
                         IN Accept(advanceIfNeeded(s2))

\* defend leaving the played card in the defender's hand
applyDefend_keepCard(s, me, action) ==
    IF me # s.defender THEN Reject("not your turn to defend", s)
    ELSE LET legals == legalDefenses(s, me, action.attackIndex)
             allowed == \E i \in 1..Len(legals) :
                            legals[i].suit = action.card.suit /\ legals[i].rank = action.card.rank
         IN IF Len(legals) > 0 /\ action.card = NoCard THEN Throw(s)
            ELSE IF ~allowed THEN Reject("cannot beat the attack with this card", s)
            ELSE LET rm == removeCardFromHand(s.players[me].hand, action.card)
                 IN IF ~rm.ok THEN Reject("card not in hand", s)
                    ELSE LET s1 == [s EXCEPT !.table[action.attackIndex + 1].defend = action.card]
                             allDefended == \A i \in 1..Len(s1.table) : s1.table[i].defend # NoCard
                             s2 == [s1 EXCEPT !.phase = IF allDefended THEN "attack" ELSE "defend",
                                              !.message = IF allDefended
                                                          THEN "add an attack or finish the turn"
                                                          ELSE "defend the remaining attacks"]
                         IN Accept(advanceIfNeeded(s2))

applyDefend(s, me, action) ==
    IF me # s.defender THEN Reject("not your turn to defend", s)
    ELSE LET legals == legalDefenses(s, me, action.attackIndex)
             allowed == \E i \in 1..Len(legals) :
                            legals[i].suit = action.card.suit /\ legals[i].rank = action.card.rank
         IN IF Len(legals) > 0 /\ action.card = NoCard THEN Throw(s)
            ELSE IF ~allowed THEN Reject("cannot beat the attack with this card", s)
            ELSE LET rm == removeCardFromHand(s.players[me].hand, action.card)
                 IN IF ~rm.ok THEN Reject("card not in hand", s)
                    ELSE LET s1 == [s EXCEPT !.players[me].hand = rm.hand,
                                             !.table[action.attackIndex + 1].defend = action.card]
                             allDefended == \A i \in 1..Len(s1.table) : s1.table[i].defend # NoCard
                             s2 == [s1 EXCEPT !.phase = IF allDefended THEN "attack" ELSE "defend",
                                              !.message = IF allDefended
                                                          THEN "add an attack or finish the turn"
                                                          ELSE "defend the remaining attacks"]
                         IN Accept(advanceIfNeeded(s2))

\* take accepted only while a defense is pending
applyTake_defendOnly(s, me) ==
    IF me # s.defender \/ s.phase # "defend" THEN Reject("only the defender can take", s)
    ELSE Accept([s EXCEPT !.phase = "throw",
                          !.message = "defender takes; attacker may throw in, then finish"])

\* take assigning the phase before it checks the actor
applyTake_mutateFirst(s, me) ==
    IF me # s.defender
    THEN Reject("only the defender can take", [s EXCEPT !.phase = "throw"])
    ELSE Accept([s EXCEPT !.phase = "throw",
                          !.message = "defender takes; attacker may throw in, then finish"])

applyTake(s, me) ==
    IF me # s.defender THEN Reject("only the defender can take", s)
    ELSE Accept([s EXCEPT !.phase = "throw",
                          !.message = "defender takes; attacker may throw in, then finish"])

\* done accepted while a defense is pending, as if the defender had taken
applyDone_inDefend(s, me) ==
    IF me # s.attacker THEN Reject("only the attacker finishes the turn", s)
    ELSE IF s.phase = "attack"
    THEN LET allDefended == Len(s.table) > 0
                            /\ \A i \in 1..Len(s.table) : s.table[i].defend # NoCard
         IN IF ~allDefended THEN Reject("undefended attacks remain", s)
            ELSE LET s1 == refillHands([s EXCEPT !.table = <<>>])
                     s2 == [s1 EXCEPT !.attacker = s1.defender, !.defender = s1.attacker,
                                      !.phase = "attack",
                                      !.message = "turn finished; roles swapped"]
                 IN Accept(checkFinish(s2))
    ELSE IF s.phase = "throw" \/ s.phase = "defend"
    THEN LET s1 == refillHands(moveTableToDefender(s))
             s2 == [s1 EXCEPT !.phase = "attack", !.message = "defender took; attack again"]
         IN Accept(checkFinish(s2))
    ELSE Reject("cannot finish the turn now", s)

\* done in phase throw swapping the roles after the defender took
applyDone_swapAfterTake(s, me) ==
    IF me # s.attacker THEN Reject("only the attacker finishes the turn", s)
    ELSE IF s.phase = "attack"
    THEN LET allDefended == Len(s.table) > 0
                            /\ \A i \in 1..Len(s.table) : s.table[i].defend # NoCard
         IN IF ~allDefended THEN Reject("undefended attacks remain", s)
            ELSE LET s1 == refillHands([s EXCEPT !.table = <<>>])
                     s2 == [s1 EXCEPT !.attacker = s1.defender, !.defender = s1.attacker,
                                      !.phase = "attack",
                                      !.message = "turn finished; roles swapped"]
                 IN Accept(checkFinish(s2))
    ELSE IF s.phase = "throw"
    THEN LET s1 == refillHands(moveTableToDefender(s))
             s2 == [s1 EXCEPT !.attacker = s1.defender, !.defender = s1.attacker,
                              !.phase = "attack", !.message = "defender took; attack again"]
         IN Accept(checkFinish(s2))
    ELSE Reject("cannot finish the turn now", s)

\* done in phase attack without the test that the table is non-empty
applyDone_emptyTableOk(s, me) ==
    IF me # s.attacker THEN Reject("only the attacker finishes the turn", s)
    ELSE IF s.phase = "attack"
    THEN LET allDefended == \A i \in 1..Len(s.table) : s.table[i].defend # NoCard
         IN IF ~allDefended THEN Reject("undefended attacks remain", s)
            ELSE LET s1 == refillHands([s EXCEPT !.table = <<>>])
                     s2 == [s1 EXCEPT !.attacker = s1.defender, !.defender = s1.attacker,
                                      !.phase = "attack",
                                      !.message = "turn finished; roles swapped"]
                 IN Accept(checkFinish(s2))
    ELSE IF s.phase = "throw"
    THEN LET s1 == refillHands(moveTableToDefender(s))
             s2 == [s1 EXCEPT !.phase = "attack", !.message = "defender took; attack again"]
         IN Accept(checkFinish(s2))
    ELSE Reject("cannot finish the turn now", s)

\* done swapping the roles by two assignments in sequence
applyDone_badSwap(s, me) ==
    IF me # s.attacker THEN Reject("only the attacker finishes the turn", s)
    ELSE IF s.phase = "attack"
    THEN LET allDefended == Len(s.table) > 0
                            /\ \A i \in 1..Len(s.table) : s.table[i].defend # NoCard
         IN IF ~allDefended THEN Reject("undefended attacks remain", s)
            ELSE LET s1 == refillHands([s EXCEPT !.table = <<>>])
                     s2 == [s1 EXCEPT !.attacker = s1.defender, !.defender = s1.defender,
                                      !.phase = "attack",
                                      !.message = "turn finished; roles swapped"]
                 IN Accept(checkFinish(s2))
    ELSE IF s.phase = "throw"
    THEN LET s1 == refillHands(moveTableToDefender(s))
             s2 == [s1 EXCEPT !.phase = "attack", !.message = "defender took; attack again"]
         IN Accept(checkFinish(s2))
    ELSE Reject("cannot finish the turn now", s)

\* done in phase attack leaving the roles as they were
applyDone_keepRoles(s, me) ==
    IF me # s.attacker THEN Reject("only the attacker finishes the turn", s)
    ELSE IF s.phase = "attack"
    THEN LET allDefended == Len(s.table) > 0
                            /\ \A i \in 1..Len(s.table) : s.table[i].defend # NoCard
         IN IF ~allDefended THEN Reject("undefended attacks remain", s)
            ELSE LET s1 == refillHands([s EXCEPT !.table = <<>>])
                     s2 == [s1 EXCEPT !.phase = "attack",
                                      !.message = "turn finished; roles swapped"]
                 IN Accept(checkFinish(s2))
    ELSE IF s.phase = "throw"
    THEN LET s1 == refillHands(moveTableToDefender(s))
             s2 == [s1 EXCEPT !.phase = "attack", !.message = "defender took; attack again"]
         IN Accept(checkFinish(s2))
    ELSE Reject("cannot finish the turn now", s)

applyDone(s, me) ==
    IF me # s.attacker THEN Reject("only the attacker finishes the turn", s)
    ELSE IF s.phase = "attack"
    THEN LET allDefended == Len(s.table) > 0
                            /\ \A i \in 1..Len(s.table) : s.table[i].defend # NoCard
         IN IF ~allDefended THEN Reject("undefended attacks remain", s)
            ELSE LET s1 == refillHands([s EXCEPT !.table = <<>>])
                     s2 == [s1 EXCEPT !.attacker = s1.defender, !.defender = s1.attacker,
                                      !.phase = "attack",
                                      !.message = "turn finished; roles swapped"]
                 IN Accept(checkFinish(s2))
    ELSE IF s.phase = "throw"
    THEN LET s1 == refillHands(moveTableToDefender(s))
             s2 == [s1 EXCEPT !.phase = "attack", !.message = "defender took; attack again"]
         IN Accept(checkFinish(s2))
    ELSE Reject("cannot finish the turn now", s)

\* applyAction without the guard on a finished game
applyAction_noFinishedGuard(s, playerId, action) ==
    LET me == findPlayer(s, playerId)
    IN IF me < 0 THEN Reject("player not found", s)
       ELSE IF action.kind = "attack" THEN applyAttack(s, me, action)
       ELSE IF action.kind = "defend" THEN applyDefend(s, me, action)
       ELSE IF action.kind = "take" THEN applyTake(s, me)
       ELSE IF action.kind = "done" THEN applyDone(s, me)
       ELSE Reject("unknown action", s)

applyAction(s, playerId, action) ==
    IF s.phase = "finished" THEN Reject("game is finished", s)
    ELSE LET me == findPlayer(s, playerId)
         IN IF me < 0 THEN Reject("player not found", s)
            ELSE IF action.kind = "attack" THEN applyAttack(s, me, action)
            ELSE IF action.kind = "defend" THEN applyDefend(s, me, action)
            ELSE IF action.kind = "take" THEN applyTake(s, me)
            ELSE IF action.kind = "done" THEN applyDone(s, me)
            ELSE Reject("unknown action", s)

(***************************************************************************)
(* botDecide: the action the bot proposes, or none.                        *)
(***************************************************************************)
\* botDecide returning null
NoAction == [kind |-> "null", card |-> NoCard, attackIndex |-> 0]

\* state.players.findIndex((p) => p.type === 'bot')
botIndex(s) ==
    IF s.players[0].type = "bot" THEN 0
    ELSE IF s.players[1].type = "bot" THEN 1
    ELSE -1

\* state.table.findIndex((s) => !s.defend), 0-based; -1 when no slot is open
firstOpenSlot(table) ==
    IF \E i \in 1..Len(table) : table[i].defend = NoCard
    THEN (CHOOSE i \in 1..Len(table) :
            /\ table[i].defend = NoCard
            /\ \A j \in 1..(i - 1) : table[j].defend # NoCard) - 1
    ELSE -1

\* legals.slice().sort(comparator)[0]
lowest(legals, trumpSuit) == sortHand(legals, trumpSuit)[1]

\* botDecide throwing in without asking canAddAttack
botDecide_noLimit(s) ==
    LET botIdx == botIndex(s)
    IN IF botIdx < 0 THEN NoAction
       ELSE IF s.phase = "attack" /\ botIdx = s.attacker
       THEN LET legals == legalAttacks(s, botIdx)
            IN IF Len(legals) = 0 THEN ActionDone
               ELSE ActionAttack(lowest(legals, s.trumpSuit))
       ELSE IF s.phase = "defend" /\ botIdx = s.defender
       THEN LET firstOpen == firstOpenSlot(s.table)
            IN IF firstOpen < 0 THEN NoAction
               ELSE LET legals == legalDefenses(s, botIdx, firstOpen)
                    IN IF Len(legals) = 0 THEN ActionTake
                       ELSE ActionDefend(firstOpen, lowest(legals, s.trumpSuit))
       ELSE IF s.phase = "throw" /\ botIdx = s.attacker
       THEN LET legals == legalAttacks(s, botIdx)
            IN IF Len(legals) = 0 THEN ActionDone
               ELSE ActionAttack(lowest(legals, s.trumpSuit))
       ELSE NoAction

\* botDecide defending with the last legal card instead of the lowest
botDecide_lastLegal(s) ==
    LET botIdx == botIndex(s)
    IN IF botIdx < 0 THEN NoAction
       ELSE IF s.phase = "attack" /\ botIdx = s.attacker
       THEN LET legals == legalAttacks(s, botIdx)
            IN IF Len(legals) = 0 THEN ActionDone
               ELSE ActionAttack(lowest(legals, s.trumpSuit))
       ELSE IF s.phase = "defend" /\ botIdx = s.defender
       THEN LET firstOpen == firstOpenSlot(s.table)
            IN IF firstOpen < 0 THEN NoAction
               ELSE LET legals == legalDefenses(s, botIdx, firstOpen)
                    IN IF Len(legals) = 0 THEN ActionTake
                       ELSE ActionDefend(firstOpen, legals[Len(legals)])
       ELSE IF s.phase = "throw" /\ botIdx = s.attacker
       THEN IF ~canAddAttack(s) THEN ActionDone
            ELSE LET legals == legalAttacks(s, botIdx)
                 IN IF Len(legals) = 0 THEN ActionDone
                    ELSE ActionAttack(lowest(legals, s.trumpSuit))
       ELSE NoAction

\* botDecide finishing the turn when it cannot beat the attack
botDecide_giveUp(s) ==
    LET botIdx == botIndex(s)
    IN IF botIdx < 0 THEN NoAction
       ELSE IF s.phase = "attack" /\ botIdx = s.attacker
       THEN LET legals == legalAttacks(s, botIdx)
            IN IF Len(legals) = 0 THEN ActionDone
               ELSE ActionAttack(lowest(legals, s.trumpSuit))
       ELSE IF s.phase = "defend" /\ botIdx = s.defender
       THEN LET firstOpen == firstOpenSlot(s.table)
            IN IF firstOpen < 0 THEN NoAction
               ELSE LET legals == legalDefenses(s, botIdx, firstOpen)
                    IN IF Len(legals) = 0 THEN ActionDone
                       ELSE ActionDefend(firstOpen, lowest(legals, s.trumpSuit))
       ELSE IF s.phase = "throw" /\ botIdx = s.attacker
       THEN IF ~canAddAttack(s) THEN ActionDone
            ELSE LET legals == legalAttacks(s, botIdx)
                 IN IF Len(legals) = 0 THEN ActionDone
                    ELSE ActionAttack(lowest(legals, s.trumpSuit))
       ELSE NoAction

botDecide(s) ==
    LET botIdx == botIndex(s)
    IN IF botIdx < 0 THEN NoAction
       ELSE IF s.phase = "attack" /\ botIdx = s.attacker
       THEN LET legals == legalAttacks(s, botIdx)
            IN IF Len(legals) = 0 THEN ActionDone
               ELSE ActionAttack(lowest(legals, s.trumpSuit))
       ELSE IF s.phase = "defend" /\ botIdx = s.defender
       THEN LET firstOpen == firstOpenSlot(s.table)
            IN IF firstOpen < 0 THEN NoAction
               ELSE LET legals == legalDefenses(s, botIdx, firstOpen)
                    IN IF Len(legals) = 0 THEN ActionTake
                       ELSE ActionDefend(firstOpen, lowest(legals, s.trumpSuit))
       ELSE IF s.phase = "throw" /\ botIdx = s.attacker
       THEN IF ~canAddAttack(s) THEN ActionDone
            ELSE LET legals == legalAttacks(s, botIdx)
                 IN IF Len(legals) = 0 THEN ActionDone
                    ELSE ActionAttack(lowest(legals, s.trumpSuit))
       ELSE NoAction

(***************************************************************************)
(* The state machine: a game is started from one shuffle, and every step   *)
(* is one call of applyAction.                                             *)
(***************************************************************************)
SeedValue(k) == (k * 25173 + 13849) % RndM

\* every action value a caller can send
AttackIndexes == (-1)..Len(state.table)

\* the card of an action: a card of the deck, or no card field at all
ActionCards == Card \cup {NoCard}

AttackActions == {ActionAttack(c) : c \in ActionCards}

DefendActions == {ActionDefend(i, c) : i \in AttackIndexes, c \in ActionCards}

AllActions == AttackActions \cup DefendActions \cup {ActionTake, ActionDone, ActionUnknown}

\* the cards an accepted call retires: done in phase attack clears the table
retired(s, action, r) ==
    IF action.kind = "done" /\ r.ok /\ s.phase = "attack"
    THEN Range(tableCards(s.table))
    ELSE {}

Init ==
    /\ dim = ModelDim
    /\ \E k \in 1..NumSeeds :
        /\ shuffled = shuffle(makeDeck, SeedValue(k))
        /\ state = startGame(HumanId, BotId, SeedValue(k))
    /\ discard = {}
    /\ calls = 0
    /\ roomHumanId = HumanId

\* one call of applyAction; the object passed in is the object returned
Call(playerId, action) ==
    LET r == applyAction(state, playerId, action)
    IN /\ state' = r.state
       /\ discard' = discard \cup retired(state, action, r)
       /\ UNCHANGED <<dim, calls, shuffled, roomHumanId>>

Attack == \E p \in PlayerIds, a \in AttackActions : Call(p, a)

Defend == \E p \in PlayerIds, a \in DefendActions : Call(p, a)

Take == \E p \in PlayerIds : Call(p, ActionTake)

Done == \E p \in PlayerIds : Call(p, ActionDone)

Unknown == \E p \in PlayerIds : Call(p, ActionUnknown)

Next == Attack \/ Defend \/ Take \/ Done \/ Unknown

Spec == Init /\ [][Next]_vars

(***************************************************************************)
(* The program's own deck: 4 suits, 9 ranks, hands of 6; the first         *)
(* MaxCalls accepted calls of a game.                                      *)
(***************************************************************************)
InitFull ==
    /\ dim = FullDim
    /\ \E k \in 1..FullSeeds :
        /\ shuffled = shuffle(makeDeck, SeedValue(k))
        /\ state = startGame(HumanId, BotId, SeedValue(k))
    /\ discard = {}
    /\ calls = 0
    /\ roomHumanId = HumanId

Play ==
    /\ calls < MaxCalls
    /\ \E p \in PlayerIds, a \in AllActions :
        LET r == applyAction(state, p, a)
        IN /\ state' = r.state
           /\ discard' = discard \cup retired(state, a, r)
           /\ calls' = IF r.ok THEN calls + 1 ELSE calls
           /\ UNCHANGED <<dim, shuffled, roomHumanId>>

NextFull == Play

SpecFull == InitFull /\ [][NextFull]_vars

(***************************************************************************)
(* A deck of one rank more with the hands of the scaled-down deck: after   *)
(* the deal the deck holds as many cards as both hands together, so a      *)
(* player can take the table, win a later turn and attack with more cards  *)
(* than the defender holds while the deck is not empty.                    *)
(***************************************************************************)
DeepDim == [suits |-> ModelSuits, ranks |-> ModelRanks + 1, hand |-> ModelHand]

InitDeep ==
    /\ dim = DeepDim
    /\ \E k \in 1..NumSeeds :
        /\ shuffled = shuffle(makeDeck, SeedValue(k))
        /\ state = startGame(HumanId, BotId, SeedValue(k))
    /\ discard = {}
    /\ calls = 0
    /\ roomHumanId = HumanId

SpecDeep == InitDeep /\ [][Next]_vars

(***************************************************************************)
(* The server (index.ts, lines 11-178): one room, one game against the     *)
(* bot.  The specification starts with the game a start message created;   *)
(* the menu before it (room.state = null, and the leave message that       *)
(* returns to it) and the hello message, which only sends, are left out.   *)
(* An exception in applyAction leaves the room as it was.                  *)
(***************************************************************************)
\* let guard = 50
GUARD == 50

\* the connected clients: the one who started the game and another one
Clients == {HumanId, StrangerId}

\* the loop going on after every accepted bot action
RECURSIVE botLoop_noBreak(_, _, _, _)
botLoop_noBreak(s, guard, applied, gone) ==
    IF guard = 0
    THEN [state |-> s, applied |-> applied, cap |-> TRUE, error |-> FALSE, retired |-> gone]
    ELSE LET act == botDecide(s)
         IN IF act = NoAction
            THEN [state |-> s, applied |-> applied, cap |-> FALSE, error |-> FALSE,
                  retired |-> gone]
            ELSE LET res == applyAction(s, BotId, act)
                     out == gone \cup retired(s, act, res)
                 IN IF ~res.ok
                    THEN [state |-> res.state, applied |-> applied, cap |-> FALSE,
                          error |-> TRUE, retired |-> out]
                    ELSE IF res.state.phase = "finished"
                    THEN [state |-> res.state, applied |-> applied + 1, cap |-> FALSE,
                          error |-> FALSE, retired |-> out]
                    ELSE botLoop_noBreak(res.state, guard - 1, applied + 1, out)

\* the while loop of processBotTurns from state s with guard iterations
\* left: the state it ends in, the number of bot actions applied, whether
\* the guard ran out, whether a bot action was rejected, the cards retired
RECURSIVE botLoop(_, _, _, _)
botLoop(s, guard, applied, gone) ==
    IF guard = 0
    THEN [state |-> s, applied |-> applied, cap |-> TRUE, error |-> FALSE, retired |-> gone]
    ELSE LET act == botDecide(s)
         IN IF act = NoAction
            THEN [state |-> s, applied |-> applied, cap |-> FALSE, error |-> FALSE,
                  retired |-> gone]
            ELSE LET res == applyAction(s, BotId, act)
                     out == gone \cup retired(s, act, res)
                 IN IF ~res.ok
                    THEN [state |-> res.state, applied |-> applied, cap |-> FALSE,
                          error |-> TRUE, retired |-> out]
                    ELSE IF res.state.phase = "finished"
                            \/ act.kind \in {"attack", "defend", "take"}
                    THEN [state |-> res.state, applied |-> applied + 1, cap |-> FALSE,
                          error |-> FALSE, retired |-> out]
                    ELSE botLoop(res.state, guard - 1, applied + 1, out)

processBotTurns(s) == botLoop(s, GUARD, 0, {})

\* the room's state after an action message from client id
onAction(s, id, action) ==
    LET r == applyAction(s, id, action)
    IN IF r.ok
       THEN LET b == processBotTurns(r.state)
            IN [state |-> b.state, retired |-> retired(s, action, r) \cup b.retired]
       ELSE [state |-> r.state, retired |-> {}]

\* the room's state after a concede message from client id
onConcede(s, human, id) ==
    IF id # human THEN s
    ELSE [s EXCEPT !.phase = "finished",
                   !.winnerId = BotId,
                   !.message = "You conceded. Bot won"]

\* the deck of the server's games: one rank more than the scaled-down deck,
\* so that the bot gets to attack while the deck still holds cards
ServerDim == [suits |-> ModelSuits, ranks |-> ModelRanks + 1, hand |-> ModelHand + 1]

InitServer ==
    /\ dim = ServerDim
    /\ \E k \in 1..NumSeeds :
        /\ shuffled = shuffle(makeDeck, SeedValue(k))
        /\ state = startGame(HumanId, BotId, SeedValue(k))
    /\ discard = {}
    /\ calls = 0
    /\ roomHumanId = HumanId

\* message type action: the sender takes control, then its action is applied
ServerAction ==
    \E id \in Clients, a \in AllActions :
        \E t \in {onAction(state, id, a)} :
            /\ roomHumanId' = id
            /\ state' = t.state
            /\ discard' = discard \cup t.retired
            /\ UNCHANGED <<dim, calls, shuffled>>

\* message type concede
ServerConcede ==
    \E id \in Clients :
        /\ state' = onConcede(state, roomHumanId, id)
        /\ UNCHANGED <<dim, discard, calls, shuffled, roomHumanId>>

\* message type start or reset: the sender takes control of a new game
ServerReset ==
    \E id \in Clients, k \in 1..NumSeeds :
        /\ roomHumanId' = id
        /\ shuffled' = shuffle(makeDeck, SeedValue(k))
        /\ state' = startGame(id, BotId, SeedValue(k))
        /\ discard' = {}
        /\ UNCHANGED <<dim, calls>>

NextServer == ServerAction \/ ServerConcede \/ ServerReset

SpecServer == InitServer /\ [][NextServer]_vars

(***************************************************************************)
(* Properties.                                                             *)
(***************************************************************************)
hand0 == state.players[0].hand
hand1 == state.players[1].hand
defenderHand == state.players[state.defender].hand
attackerHand == state.players[state.attacker].hand

\* every card the state holds, with repetitions
heldCards == state.deck \o hand0 \o hand1 \o tableCards(state.table)

NoDuplicates(seq) == \A i, j \in 1..Len(seq) : i # j => seq[i] # seq[j]

openSlots == {i \in 1..Len(state.table) : state.table[i].defend = NoCard}

\* the ranks of the cards lying on the table, attack and defend cards
ranksSeen ==
    {r \in Rank : \E i \in 1..Len(state.table) :
        \/ state.table[i].attack.rank = r
        \/ (state.table[i].defend # NoCard /\ state.table[i].defend.rank = r)}

\* C1 as stated: in every reachable state the cards in the deck, in both
\* hands and on the table are exactly the cards of the full deck, each once.
C1_CardConservation ==
    /\ NoDuplicates(heldCards)
    /\ Range(heldCards) = Card

\* C1 amended: every card of the full deck is in exactly one of the deck, a
\* hand, a table slot, or the cards that accepted done calls in phase attack
\* cleared from the table; no card is held twice.
C1_ConservationWithDiscard ==
    /\ NoDuplicates(heldCards)
    /\ Range(heldCards) \cap discard = {}
    /\ Range(heldCards) \cup discard = Card

C1_Witness ==
    /\ discard # {}
    /\ state.table # <<>>
    /\ Len(state.deck) = 0

\* C2 rejection purity: a call of applyAction that returns ok = false returns
\* the state equal in every field to the state before the call, for every
\* player id and every action.
C2_RejectionPurity ==
    \A p \in PlayerIds, a \in AllActions :
        LET r == applyAction(state, p, a)
        IN r.ok = FALSE => r.state = state

\* a throw-in of a card the attacker holds is rejected
C2_Witness ==
    /\ state.phase = "throw"
    /\ state.table # <<>>
    /\ \E i \in 1..Len(attackerHand) :
        ~applyAction(state, state.players[state.attacker].id,
                     ActionAttack(attackerHand[i])).ok

\* C3 terminal stability: once phase = finished every call of applyAction is
\* rejected and leaves the state unchanged, so no step changes the phase or
\* winnerId any more.
C3_TerminalStability ==
    /\ [](state.phase = "finished" =>
            \A p \in PlayerIds, a \in AllActions :
                LET r == applyAction(state, p, a)
                IN r.ok = FALSE /\ r.state = state)
    /\ [][state.phase = "finished" => state' = state]_vars

C3_Witness ==
    /\ state.phase = "finished"
    /\ state.winnerId # NoWinner
    /\ state.table # <<>>

\* C4 role disjointness: attacker and defender are both in {0,1} and differ.
C4_RoleDisjointness ==
    /\ state.attacker \in {0, 1}
    /\ state.defender \in {0, 1}
    /\ state.attacker # state.defender

C4_Witness ==
    /\ state.attacker = 1
    /\ state.defender = 0
    /\ discard # {}

\* C5 defender hand bound: whenever some table slot is open, table.length is
\* at most the current size of the defender's hand.
C5_DefenderHandBound ==
    openSlots # {} => Len(state.table) <= Len(defenderHand)

\* C6 throw-in legality: with a non-empty table every card legalAttacks
\* returns has a rank lying on the table; with an empty table, phase attack
\* or throw and the attacker asking, it returns the whole hand; in any other
\* phase or for any other player it returns nothing.
C6_ThrowInLegality ==
    \A p \in (-1)..2 :
        LET legal == legalAttacks(state, p)
            asked == state.phase \in {"attack", "throw"} /\ p = state.attacker
        IN /\ state.table # <<>> => \A i \in 1..Len(legal) : legal[i].rank \in ranksSeen
           /\ (state.table = <<>> /\ asked) => legal = state.players[p].hand
           /\ ~asked => legal = <<>>

C6_Witness ==
    /\ state.table # <<>>
    /\ state.phase = "throw"
    /\ Len(legalAttacks(state, state.attacker)) >= 1
    /\ Len(legalAttacks(state, state.attacker)) < Len(attackerHand)

\* C7 initial state: startGame returns 24 cards in the deck, 6 cards in each
\* hand, an empty table, phase attack, attacker 0, defender 1, no winnerId,
\* and 36 distinct cards over deck and hands.
C7_InitialState ==
    calls = 0 =>
        /\ Len(state.deck) = 24
        /\ Len(hand0) = 6
        /\ Len(hand1) = 6
        /\ state.table = <<>>
        /\ state.phase = "attack"
        /\ state.attacker = 0
        /\ state.defender = 1
        /\ state.winnerId = NoWinner
        /\ Cardinality(Range(state.deck) \cup Range(hand0) \cup Range(hand1)) = 36

C7_Witness ==
    /\ calls = 0
    /\ dim = FullDim
    /\ Len(state.deck) = 24
    /\ state.trumpSuit = 4

\* C8 finish condition: phase = finished if and only if the deck is empty
\* and at least one hand is empty.
C8_FinishCondition ==
    state.phase = "finished"
        <=> (Len(state.deck) = 0 /\ (Len(hand0) = 0 \/ Len(hand1) = 0))

C8_Witness ==
    /\ state.phase = "finished"
    /\ Len(state.deck) = 0
    /\ Len(hand0) = 0

\* C9 winner determination: in a finished state with exactly one empty hand
\* winnerId is the id of the player whose hand is empty, and the other player
\* holds at least one card.
C9_WinnerDetermination ==
    \A i \in {0, 1} :
        (state.phase = "finished" /\ Len(state.players[i].hand) = 0
            /\ Len(state.players[1 - i].hand) # 0)
        => (state.winnerId = state.players[i].id /\ Len(state.players[1 - i].hand) >= 1)

C9_Witness ==
    /\ state.phase = "finished"
    /\ Len(hand1) = 0
    /\ Len(hand0) >= 1
    /\ state.winnerId = BotId

\* C10: in every state with phase other than finished winnerId is absent.
C10_WinnerOnlyWhenFinished ==
    state.phase # "finished" => state.winnerId = NoWinner

C10_Witness ==
    /\ state.phase # "finished"
    /\ state.winnerId = NoWinner
    /\ Len(state.deck) = 0
    /\ discard # {}

\* C11 trump stability: trumpSuit is the suit of trumpCard, trumpCard is the
\* last element of the deck as it was shuffled, and no call of applyAction,
\* accepted or rejected, changes trumpSuit or trumpCard.
C11_TrumpStability ==
    /\ state.trumpSuit = state.trumpCard.suit
    /\ state.trumpCard = shuffled[Len(shuffled)]
    /\ \A p \in PlayerIds, a \in AllActions :
        LET r == applyAction(state, p, a)
        IN /\ r.state.trumpCard = state.trumpCard
           /\ r.state.trumpSuit = state.trumpSuit

\* the trump card itself has been cleared from the table
C11_Witness ==
    /\ state.trumpCard \in discard
    /\ state.phase # "finished"

\* the player index of a player id, -1 for an id of no player
indexOf(p) == IF p = HumanId THEN 0 ELSE IF p = BotId THEN 1 ELSE -1

inHand(c, hand) == \E i \in 1..Len(hand) : hand[i] = c

\* C12 attack acceptance: attack(card) by p is accepted if and only if the
\* game is not finished, p is the attacker, phase is attack or throw, the
\* card is in p's hand, the table is empty or the card's rank lies on the
\* table, and in phase throw table.length is less than the defender's hand
\* size.
C12_AttackAcceptance ==
    \A p \in PlayerIds, c \in Card :
        applyAction(state, p, ActionAttack(c)).ok
        <=> /\ state.phase # "finished"
            /\ indexOf(p) = state.attacker
            /\ state.phase \in {"attack", "throw"}
            /\ inHand(c, attackerHand)
            /\ (state.table = <<>> \/ c.rank \in ranksSeen)
            /\ (state.phase = "throw" => Len(state.table) < Len(defenderHand))

\* in phase throw the attacker holds a card of a rank on the table and the
\* table is as long as the defender's hand
C12_Witness ==
    /\ state.phase = "throw"
    /\ state.table # <<>>
    /\ Len(state.table) >= Len(defenderHand)
    /\ \E i \in 1..Len(attackerHand) : attackerHand[i].rank \in ranksSeen

\* seq without the elements equal to c, in the order of seq
without(seq, c) == LET keep(x) == x # c IN SelectSeq(seq, keep)

\* the finish check fires on these hands and this deck
finishFires(deck, h0, h1) == Len(deck) = 0 /\ (Len(h0) = 0 \/ Len(h1) = 0)

\* C13 attack effect: an accepted attack(card) removes exactly that card from
\* the attacker's hand, appends one open slot holding it at the end of the
\* table, leaves the deck, the defender's hand, the earlier slots and the
\* roles unchanged, and gives phase defend from attack and throw from throw,
\* or finished when the finish check fires.
C13_AttackEffect ==
    \A p \in PlayerIds, c \in Card :
        LET r == applyAction(state, p, ActionAttack(c))
            t == r.state
        IN r.ok =>
            /\ t.players[state.attacker].hand = without(attackerHand, c)
            /\ Len(t.players[state.attacker].hand) = Len(attackerHand) - 1
            /\ t.table = Append(state.table, [attack |-> c, defend |-> NoCard])
            /\ t.deck = state.deck
            /\ t.players[state.defender].hand = defenderHand
            /\ t.attacker = state.attacker
            /\ t.defender = state.defender
            /\ t.phase = IF finishFires(t.deck, t.players[0].hand, t.players[1].hand)
                         THEN "finished"
                         ELSE IF state.phase = "attack" THEN "defend" ELSE "throw"

\* a throw-in has been accepted after an undefended attack
C13_Witness ==
    /\ state.phase = "throw"
    /\ Len(state.table) >= 2
    /\ state.table[Len(state.table)].defend = NoCard
    /\ state.table[1].defend = NoCard

\* slot i (0-based) of the table exists and has no defend card
openSlot(i) == i + 1 \in 1..Len(state.table) /\ state.table[i + 1].defend = NoCard

\* c beats a: a higher card of the same suit, or a trump against a plain card
beats(a, c) ==
    \/ c.suit = a.suit /\ c.rank > a.rank
    \/ c.suit # a.suit /\ c.suit = state.trumpSuit /\ a.suit # state.trumpSuit

\* C14 defense acceptance: defend(attackIndex, card) by player p is accepted
\* if and only if the phase is defend, p is the defender, the slot exists and
\* is open, the card is in p's hand and it beats the slot's attack card; a
\* non-trump card of another suit than the attack card is rejected and the
\* state is unchanged.
C14_DefenseAcceptance ==
    \A p \in PlayerIds, i \in AttackIndexes, c \in Card :
        LET r == applyAction(state, p, ActionDefend(i, c))
        IN /\ r.ok <=> /\ state.phase = "defend"
                       /\ indexOf(p) = state.defender
                       /\ openSlot(i)
                       /\ inHand(c, defenderHand)
                       /\ beats(state.table[i + 1].attack, c)
           /\ (/\ openSlot(i)
               /\ c.suit # state.trumpSuit
               /\ c.suit # state.table[i + 1].attack.suit)
              => ~r.ok /\ r.state = state

\* the defender faces an open plain attack and holds a higher plain card of
\* another suit
C14_Witness ==
    /\ state.phase = "defend"
    /\ \E i \in 1..Len(state.table), k \in 1..Len(defenderHand) :
        /\ state.table[i].defend = NoCard
        /\ state.table[i].attack.suit # state.trumpSuit
        /\ defenderHand[k].suit # state.trumpSuit
        /\ defenderHand[k].suit # state.table[i].attack.suit
        /\ defenderHand[k].rank > state.table[i].attack.rank

\* every slot of table t has a defend card
allSlotsDefended(t) == \A i \in 1..Len(t) : t[i].defend # NoCard

\* C15 defense effect: an accepted defend(attackIndex, card) removes exactly
\* that card from the defender's hand, sets the defend card of that slot
\* only, leaves the deck, the attacker's hand and the roles unchanged, and
\* gives phase attack when every slot now has a defend card, otherwise
\* defend, or finished when the finish check fires.
C15_DefenseEffect ==
    \A p \in PlayerIds, i \in AttackIndexes, c \in Card :
        LET r == applyAction(state, p, ActionDefend(i, c))
            t == r.state
        IN r.ok =>
            /\ t.players[state.defender].hand = without(defenderHand, c)
            /\ Len(t.players[state.defender].hand) = Len(defenderHand) - 1
            /\ Len(t.table) = Len(state.table)
            /\ t.table[i + 1] = [attack |-> state.table[i + 1].attack, defend |-> c]
            /\ \A j \in 1..Len(state.table) : j # i + 1 => t.table[j] = state.table[j]
            /\ t.deck = state.deck
            /\ t.players[state.attacker].hand = attackerHand
            /\ t.attacker = state.attacker
            /\ t.defender = state.defender
            /\ t.phase = IF finishFires(t.deck, t.players[0].hand, t.players[1].hand)
                         THEN "finished"
                         ELSE IF allSlotsDefended(t.table) THEN "attack" ELSE "defend"

\* a second attack of the same turn has been beaten
C15_Witness ==
    /\ state.phase = "attack"
    /\ Len(state.table) >= 2
    /\ allSlotsDefended(state.table)

\* C16 take: a take by the defender is accepted in every phase but finished,
\* also with an empty table; it sets the phase to throw and leaves the deck,
\* both hands, the table, attacker, defender and winnerId unchanged. A take
\* by anyone else is rejected.
C16_Take ==
    \A p \in PlayerIds :
        LET r == applyAction(state, p, ActionTake)
            t == r.state
        IN /\ r.ok <=> state.phase # "finished" /\ indexOf(p) = state.defender
           /\ r.ok =>
                /\ t.phase = "throw"
                /\ t.deck = state.deck
                /\ t.players = state.players
                /\ t.table = state.table
                /\ t.attacker = state.attacker
                /\ t.defender = state.defender
                /\ t.winnerId = state.winnerId

\* a take has been accepted on an empty table
C16_Witness ==
    /\ state.phase = "throw"
    /\ state.table = <<>>
    /\ discard # {}

\* the player id of the attacker
attackerId == state.players[state.attacker].id

\* C17 done precondition in attack phase, as stated: when phase = attack, a
\* done by the attacker is accepted if and only if every table slot has a
\* defend card. (Refuted: with an empty table every slot is defended, and
\* the done is rejected.)
C17_DonePrecondition ==
    state.phase = "attack" =>
        (applyAction(state, attackerId, ActionDone).ok <=> allSlotsDefended(state.table))

\* C17 done precondition in attack phase, amended: when phase = attack, a
\* done by the attacker is accepted if and only if the table is non-empty
\* and every table slot has a defend card; it is rejected, with the state
\* unchanged, when the table is empty or some slot is undefended.
C17_DonePreconditionNonEmpty ==
    state.phase = "attack" =>
        LET r == applyAction(state, attackerId, ActionDone)
        IN /\ r.ok <=> state.table # <<>> /\ allSlotsDefended(state.table)
           /\ ~r.ok => r.state = state

\* a done has been accepted and the next turn starts on an empty table,
\* where a done is rejected
C17_Witness ==
    /\ state.phase = "attack"
    /\ state.table = <<>>
    /\ discard # {}
    /\ ~applyAction(state, attackerId, ActionDone).ok

Min(a, b) == IF a < b THEN a ELSE b

\* the number of cards a hand of n cards draws from a deck of d cards
drawCount(n, d) == Min(IF n < dim.hand THEN dim.hand - n ELSE 0, d)

\* the k cards under the top `skip` cards of the deck (the top is the end)
topCards(deck, skip, k) == {deck[Len(deck) - skip - j] : j \in 0..(k - 1)}

\* state t is state s after a refill in which the hand `first` (a sequence
\* of cards held by player a) draws before the hand `second` of player d
refilled(s, t, a, first, d, second) ==
    LET nA == drawCount(Len(first), Len(s.deck))
        nD == drawCount(Len(second), Len(s.deck) - nA)
    IN /\ t.deck = SubSeq(s.deck, 1, Len(s.deck) - nA - nD)
       /\ Len(t.players[a].hand) = Len(first) + nA
       /\ Range(t.players[a].hand) = Range(first) \cup topCards(s.deck, 0, nA)
       /\ Len(t.players[d].hand) = Len(second) + nD
       /\ Range(t.players[d].hand) = Range(second) \cup topCards(s.deck, nA, nD)

\* C18 done effect in attack phase: an accepted done in phase attack empties
\* the table, refills the hands drawing first for the player who was the
\* attacker before the call and then for the one who was the defender, then
\* swaps attacker and defender, and leaves phase attack unless the finish
\* check makes it finished.
C18_DoneEffectAttack ==
    state.phase = "attack" =>
        LET r == applyAction(state, attackerId, ActionDone)
            t == r.state
        IN r.ok =>
            /\ t.table = <<>>
            /\ refilled(state, t, state.attacker, attackerHand, state.defender, defenderHand)
            /\ t.attacker = state.defender
            /\ t.defender = state.attacker
            /\ t.phase = IF finishFires(t.deck, t.players[0].hand, t.players[1].hand)
                         THEN "finished" ELSE "attack"

\* a done is accepted in phase attack, the attacker draws, the deck runs out
\* before the defender's hand is full, and the game goes on
C18_Witness ==
    /\ state.phase = "attack"
    /\ LET r == applyAction(state, attackerId, ActionDone)
       IN /\ r.ok
          /\ Len(r.state.deck) = 0
          /\ Len(r.state.players[state.attacker].hand) > Len(attackerHand)
          /\ Len(r.state.players[state.defender].hand) < dim.hand
          /\ r.state.phase = "attack"

\* every card lying on table t: the attack cards, then the defend cards
tablePile(t) ==
    LET isCard(c) == c # NoCard
    IN [i \in 1..Len(t) |-> t[i].attack] \o SelectSeq([i \in 1..Len(t) |-> t[i].defend], isCard)

\* C19 done effect in throw phase: an accepted done in phase throw moves
\* every card on the table (each attack card and each defend card, the
\* attack cards of undefended slots included) into the defender's hand,
\* empties the table, refills the hands attacker first, keeps attacker and
\* defender unchanged, and leaves phase attack unless the finish check makes
\* it finished.
C19_DoneEffectThrow ==
    state.phase = "throw" =>
        LET r == applyAction(state, attackerId, ActionDone)
            t == r.state
        IN r.ok =>
            /\ t.table = <<>>
            /\ refilled(state, t, state.attacker, attackerHand,
                        state.defender, defenderHand \o tablePile(state.table))
            /\ t.attacker = state.attacker
            /\ t.defender = state.defender
            /\ t.phase = IF finishFires(t.deck, t.players[0].hand, t.players[1].hand)
                         THEN "finished" ELSE "attack"

\* the defender takes a table with a defended and an undefended slot and
\* ends with more cards than a full hand
C19_Witness ==
    /\ state.phase = "throw"
    /\ \E i, j \in 1..Len(state.table) :
        state.table[i].defend # NoCard /\ state.table[j].defend = NoCard
    /\ LET r == applyAction(state, attackerId, ActionDone)
       IN /\ r.ok
          /\ Len(r.state.players[state.defender].hand) > dim.hand
          /\ r.state.phase = "attack"

\* action a from player id p comes from the wrong actor or in the wrong phase
wrongActorOrPhase(p, a) ==
    \/ indexOf(p) = -1
    \/ a.kind \in {"attack", "done"} /\ indexOf(p) # state.attacker
    \/ a.kind \in {"defend", "take"} /\ indexOf(p) # state.defender
    \/ a.kind = "done" /\ state.phase = "defend"

\* C20 wrong actor / wrong phase: applyAction rejects, with the state
\* unchanged, every action from a player id that is not one of the two
\* players, every attack or done from the player who is not the attacker,
\* every defend or take from the player who is not the defender, and every
\* done issued while the phase is defend.
C20_WrongActorOrPhase ==
    \A p \in PlayerIds, a \in AllActions :
        wrongActorOrPhase(p, a) =>
            LET r == applyAction(state, p, a)
            IN ~r.ok /\ r.state = state

\* a defense is pending in a later turn: the attacker's done is in the wrong
\* phase and the defender could beat the attack
C20_Witness ==
    /\ state.phase = "defend"
    /\ discard # {}
    /\ \E k \in 1..Len(defenderHand) :
        beats(state.table[Len(state.table)].attack, defenderHand[k])

\* action a is an attack or a defend without a card field, or of unknown kind
untrusted(a) ==
    \/ a.kind \in {"attack", "defend"} /\ a.card = NoCard
    \/ a.kind \notin {"attack", "defend", "take", "done"}

\* C21 no exception on untrusted input: for every action value, an attack or
\* a defend whose card field is missing and an action of unknown kind
\* included, applyAction returns a rejection with the state unchanged and
\* never raises an exception. (Refuted: an attack without a card from the
\* attacker who has a legal attack raises a TypeError, and so does a defend
\* without a card from the defender who can beat the slot.)
C21_NoException ==
    \A p \in PlayerIds, a \in AllActions :
        LET r == applyAction(state, p, a)
        IN /\ ~r.thrown
           /\ untrusted(a) => ~r.ok /\ r.state = state

\* C22 canBeat: for the trump suit of the game and any two cards of the
\* deck, canBeat(attack, defend, trumpSuit) is true exactly when both cards
\* have the same suit and defend's rank is strictly higher, or defend is
\* trump and attack is not; so no card beats itself, canBeat(a, b) and
\* canBeat(b, a) never both hold, and a plain card never beats a card of
\* another suit.
C22_CanBeat ==
    \A a, b \in Card :
        LET t == state.trumpSuit
        IN /\ canBeat(a, b, t) <=> \/ a.suit = b.suit /\ b.rank > a.rank
                                   \/ b.suit = t /\ a.suit # t
           /\ ~canBeat(a, a, t)
           /\ ~(canBeat(a, b, t) /\ canBeat(b, a, t))
           /\ (b.suit # t /\ b.suit # a.suit) => ~canBeat(a, b, t)

\* the defender holds a trump that beats an open plain attack of higher
\* rank, and a plain card of another suit that does not beat it
C22_Witness ==
    /\ state.phase = "defend"
    /\ \E i \in openSlots, j, k \in 1..Len(defenderHand) :
        LET a == state.table[i].attack
        IN /\ a.suit # state.trumpSuit
           /\ defenderHand[j].suit = state.trumpSuit
           /\ defenderHand[j].rank < a.rank
           /\ defenderHand[j] \in Range(legalDefenses(state, state.defender, i - 1))
           /\ defenderHand[k].suit \notin {state.trumpSuit, a.suit}
           /\ defenderHand[k] \notin Range(legalDefenses(state, state.defender, i - 1))

\* the states refillHands is called on from the state at hand: the state
\* itself, the state with the table cleared (done in phase attack) and the
\* state with the table taken by the defender (done in phase throw)
refillInputs ==
    {state, [state EXCEPT !.table = <<>>], moveTableToDefender(state)}

\* C23 refill rule: refillHands never removes a card from a hand, draws only
\* from the tail of the deck, gives the attacker cards first until the
\* attacker holds a full hand or the deck is empty and only then the
\* defender; afterwards the deck is empty or both hands are full, and a hand
\* that was already full or larger is unchanged as a set.
C23_RefillRule ==
    \A s \in refillInputs :
        \A t \in {refillHands(s)} :
            LET a == s.attacker
                d == s.defender
            IN /\ refilled(s, t, a, s.players[a].hand, d, s.players[d].hand)
               /\ \A i \in {0, 1} : Range(s.players[i].hand) \subseteq Range(t.players[i].hand)
               /\ \A i \in {0, 1} :
                    Len(s.players[i].hand) >= dim.hand
                        => Range(t.players[i].hand) = Range(s.players[i].hand)
               /\ Len(t.players[a].hand) < dim.hand => Len(t.deck) = 0
               /\ Len(t.deck) = 0 \/ \A i \in {0, 1} : Len(t.players[i].hand) >= dim.hand
               /\ t.table = s.table /\ t.attacker = a /\ t.defender = d /\ t.phase = s.phase

\* a turn ends with both hands short: the attacker and then the defender
\* draw, and the deck runs out
C23_Witness ==
    /\ state.phase = "attack"
    /\ state.table # <<>>
    /\ \E t \in {refillHands([state EXCEPT !.table = <<>>])} :
        /\ Len(t.players[state.attacker].hand) > Len(attackerHand)
        /\ Len(t.players[state.defender].hand) > Len(defenderHand)
        /\ Len(t.deck) = 0

\* card c comes before card d in the order of the bot: plain before trump,
\* then by suit, then by rank
before(c, d) ==
    LET tc == c.suit = state.trumpSuit
        td == d.suit = state.trumpSuit
    IN \/ ~tc /\ td
       \/ tc = td /\ SuitCollation(c.suit) < SuitCollation(d.suit)
       \/ c.suit = d.suit /\ c.rank < d.rank

\* the first card of the set cards in the order of the bot
minimum(cards) == CHOOSE c \in cards : \A d \in cards \ {c} : before(c, d)

\* the cards of the attacker's hand that may be played as an attack
attackChoices ==
    {c \in Range(attackerHand) : state.table = <<>> \/ c.rank \in ranksSeen}

botIsAttacker == state.players[state.attacker].type = "bot"
botIsDefender == state.players[state.defender].type = "bot"

\* C24 bot attack policy: when the bot is the attacker and the phase is
\* attack or throw, botDecide returns done if the bot has no legal attack
\* (and, in phase throw, also if the table already has as many slots as the
\* defender has cards); otherwise it returns attack with the first legal
\* card in the order plain before trump, then suit, then rank.
C24_BotAttackPolicy ==
    (botIsAttacker /\ state.phase \in {"attack", "throw"}) =>
        botDecide(state) =
            IF attackChoices = {}
               \/ (state.phase = "throw" /\ Len(state.table) >= Len(defenderHand))
            THEN ActionDone
            ELSE ActionAttack(minimum(attackChoices))

\* the bot is the attacker in phase throw, holds a card of a rank on the
\* table, and the table has as many slots as the defender has cards
C24_Witness ==
    /\ botIsAttacker
    /\ state.phase = "throw"
    /\ attackChoices # {}
    /\ state.table # <<>>
    /\ Len(state.table) >= Len(defenderHand)
    /\ botDecide(state) = ActionDone

\* the 0-based index of the open slot with the lowest index
lowestOpen == CHOOSE i \in 0..(Len(state.table) - 1) :
                  openSlot(i) /\ \A j \in 0..(i - 1) : ~openSlot(j)

\* the cards of the defender's hand that beat the attack card of slot i
beaters(i) == {c \in Range(defenderHand) : beats(state.table[i + 1].attack, c)}

\* C25 bot defense policy: when the bot is the defender and the phase is
\* defend, botDecide targets the open slot with the lowest index, returns
\* take if no card of the bot's hand beats that slot's attack card, and
\* otherwise defend with the first beating card in the order of the bot; in
\* every state where the bot is neither the attacker in phase attack or
\* throw nor the defender in phase defend, botDecide returns no action.
C25_BotDefensePolicy ==
    /\ (botIsDefender /\ state.phase = "defend" /\ openSlots # {}) =>
        botDecide(state) =
            IF beaters(lowestOpen) = {} THEN ActionTake
            ELSE ActionDefend(lowestOpen, minimum(beaters(lowestOpen)))
    /\ (~(botIsAttacker /\ state.phase \in {"attack", "throw"})
        /\ ~(botIsDefender /\ state.phase = "defend")) =>
        botDecide(state) = NoAction

\* the bot can beat the open attack with a plain card and with a trump of
\* lower rank, and chooses the plain card
C25_Witness ==
    /\ botIsDefender
    /\ state.phase = "defend"
    /\ openSlots # {}
    /\ \E c, d \in beaters(lowestOpen) :
        /\ c.suit # state.trumpSuit
        /\ d.suit = state.trumpSuit
        /\ d.rank < c.rank
        /\ botDecide(state) = ActionDefend(lowestOpen, c)

\* C26 concede only before the end, as stated: a concede message from the
\* client in control finishes a running game with the bot as the winner,
\* and once a game has finished with some winnerId no concede message
\* changes phase or winnerId. (Refuted: after the human has won, a concede
\* message from the human makes the bot the winner.)
C26_ConcedeOnlyBeforeEnd ==
    \A id \in Clients :
        \A t \in {onConcede(state, roomHumanId, id)} :
            /\ (state.phase # "finished" /\ id = roomHumanId)
                => t.phase = "finished" /\ t.winnerId = BotId
            /\ (state.phase = "finished" /\ state.winnerId # NoWinner)
                => t.phase = state.phase /\ t.winnerId = state.winnerId

\* C27 bot loop runs to quiescence, as stated: after an accepted action of
\* the human, whenever processBotTurns returns before the guard runs out
\* with the game unfinished, botDecide yields no action for the resulting
\* state. (Refuted: the loop stops after any attack, defend or take of the
\* bot; after a throw-in of the bot in phase throw, botDecide still
\* proposes the next throw-in or done.)
C27_BotLoopQuiescence ==
    \A id \in Clients, a \in AllActions :
        \A r \in {applyAction(state, id, a)} :
            r.ok =>
                \A b \in {processBotTurns(r.state)} :
                    (~b.cap /\ b.state.phase # "finished")
                        => botDecide(b.state) = NoAction

\* C28 open attacks never outnumber the defender's cards: in every reachable
\* state that is not finished, the number of open (undefended) table slots
\* is at most the size of the defender's hand.
C28_OpenAttacksBound ==
    state.phase # "finished" => Cardinality(openSlots) <= Len(defenderHand)

\* C29 throw-ins match ranks on the table, as stated: every attack accepted
\* while the phase is throw uses a card whose rank appears on some attack or
\* defend card lying on the table when it is played. (Refuted: after a take
\* on an empty table the phase is throw and any card of the attacker is
\* accepted.)
C29_ThrowInsMatchRanks ==
    state.phase = "throw" =>
        \A p \in PlayerIds, c \in Card :
            applyAction(state, p, ActionAttack(c)).ok => c.rank \in ranksSeen

\* C30 roles change only on a successful defense: a call of applyAction
\* swaps attacker and defender when it is an accepted done in phase attack;
\* every other call (an accepted attack, defend, take or throw-phase done,
\* a rejected call of any kind by anyone) leaves both as they were.
C30_RolesChange ==
    \A p \in PlayerIds, a \in AllActions :
        \A r \in {applyAction(state, p, a)} :
            IF r.ok /\ a.kind = "done" /\ state.phase = "attack"
            THEN /\ r.state.attacker = state.defender
                 /\ r.state.defender = state.attacker
            ELSE /\ r.state.attacker = state.attacker
                 /\ r.state.defender = state.defender

\* the attacker can finish a fully defended table: the done is accepted,
\* swaps the roles and the game goes on; in the same state the defender's
\* take is accepted and keeps them
C30_Witness ==
    /\ state.phase = "attack"
    /\ applyAction(state, attackerId, ActionDone).ok
    /\ applyAction(state, attackerId, ActionDone).state.attacker = state.defender
    /\ applyAction(state, attackerId, ActionDone).state.phase = "attack"
    /\ \E p \in PlayerIds : applyAction(state, p, ActionTake).ok

\* C31 in phase attack the table is empty or fully defended: in every
\* reachable state whose phase is attack every table slot holds a defend
\* card, and a done answered there with "undefended attacks remain" was
\* sent on an empty table.
C31_AttackPhaseTable ==
    state.phase = "attack" =>
        /\ \A i \in 1..Len(state.table) : state.table[i].defend # NoCard
        /\ \A p \in PlayerIds :
               applyAction(state, p, ActionDone).error = "undefended attacks remain"
                   => state.table = <<>>

\* phase attack with two slots on the table, both defended
C31_Witness ==
    /\ state.phase = "attack"
    /\ Len(state.table) >= 2
    /\ \A i \in 1..Len(state.table) : state.table[i].defend # NoCard

\* C32 one open slot while defending, as stated: in every reachable state
\* whose phase is defend exactly one table slot is open and it is the last
\* one; in every reachable state whose phase is not throw at most one slot is
\* open. (Refuted in its second half: a game that ends on a throw-in is
\* finished with several open slots.)
C32_OneOpenSlot ==
    /\ state.phase = "defend" =>
           /\ Len(state.table) > 0
           /\ openSlots = {Len(state.table)}
    /\ state.phase # "throw" => Cardinality(openSlots) <= 1

\* C32 amended: in phase defend exactly one slot is open and it is the last
\* one; in phases attack and defend at most one slot is open.
C32_OneOpenSlotInPlay ==
    /\ state.phase = "defend" =>
           /\ Len(state.table) > 0
           /\ openSlots = {Len(state.table)}
    /\ state.phase \in {"attack", "defend"} => Cardinality(openSlots) <= 1

\* phase defend with a defended slot before the open one
C32_Witness ==
    /\ state.phase = "defend"
    /\ Len(state.table) >= 2
    /\ openSlots = {Len(state.table)}

\* C33 no draw by play: no reachable state has an empty deck and two empty
\* hands, and every reachable finished state names one of the two players
\* as the winner.
C33_NoDraw ==
    /\ ~(Len(state.deck) = 0 /\ Len(state.players[0].hand) = 0
                             /\ Len(state.players[1].hand) = 0)
    /\ state.phase = "finished" =>
           state.winnerId \in {state.players[0].id, state.players[1].id}

\* a game finished by play: the deck is empty, the winner holds no card and
\* the other player holds some
C33_Witness ==
    /\ state.phase = "finished"
    /\ Len(state.deck) = 0
    /\ \E w \in {0, 1} :
        /\ state.winnerId = state.players[w].id
        /\ Len(state.players[w].hand) = 0
        /\ Len(state.players[1 - w].hand) > 0

\* C34 immediate finish on the last attack card: when the deck is empty and
\* the attacker holds one card, every accepted attack (in phase attack or
\* throw) returns a finished state whose winner is the attacker and whose
\* last table slot holds the played card undefended; in that state every
\* action of every player is rejected and changes nothing.
C34_FinishOnLastAttack ==
    (Len(state.deck) = 0 /\ Len(attackerHand) = 1) =>
        \A p \in PlayerIds, c \in Card :
            LET r == applyAction(state, p, ActionAttack(c))
                t == r.state
            IN r.ok =>
                /\ state.phase \in {"attack", "throw"}
                /\ t.phase = "finished"
                /\ t.winnerId = attackerId
                /\ Len(t.table) = Len(state.table) + 1
                /\ t.table[Len(t.table)] = [attack |-> c, defend |-> NoCard]
                /\ \A q \in PlayerIds, a \in AllActions :
                       /\ ~applyAction(t, q, a).ok
                       /\ applyAction(t, q, a).state = t

\* the attacker has won with the card just played: it lies undefended in the
\* last slot, the deck is empty and the defender still holds cards
C34_Witness ==
    /\ state.phase = "finished"
    /\ Len(state.deck) = 0
    /\ state.winnerId = attackerId
    /\ attackerHand = <<>>
    /\ defenderHand # <<>>
    /\ Len(state.table) > 0
    /\ state.table[Len(state.table)].defend = NoCard

\* C35 bot proposals are always legal: in every reachable state in which
\* botDecide returns an action, applyAction called with the bot's id accepts
\* that action, and processBotTurns started in the state never ends on a
\* rejected bot action.
C35_BotProposalsLegal ==
    /\ botDecide(state) # NoAction =>
           applyAction(state, state.players[botIndex(state)].id, botDecide(state)).ok
    /\ ~processBotTurns(state).error

\* the bot defends and no card of its hand beats the open attack: it
\* proposes take, and the take is accepted
C35_Witness ==
    /\ botIsDefender
    /\ state.phase = "defend"
    /\ botDecide(state) = ActionTake
    /\ applyAction(state, BotId, ActionTake).ok

\* the number of cards in the deck, the hands and on the table of state s
cardCount(s) ==
    Len(s.deck) + Len(s.players[0].hand) + Len(s.players[1].hand)
        + Len(tableCards(s.table))

\* C36 no duplication and monotone card count: in every reachable state no
\* card occurs twice among deck, hands and table; no step makes the deck
\* longer or the number of cards in deck, hands and table larger; a step
\* makes that number smaller only when it is an accepted done in phase
\* attack, and every accepted done in phase attack makes it smaller by
\* exactly the number of cards that lay on the table.
C36_NoDuplicationMonotoneCount ==
    /\ [](NoDuplicates(heldCards))
    /\ [](state.phase = "attack" =>
            \A r \in {applyAction(state, attackerId, ActionDone)} :
                r.ok => /\ Len(tableCards(state.table)) > 0
                        /\ cardCount(r.state)
                               = cardCount(state) - Len(tableCards(state.table)))
    /\ [][/\ Len(state'.deck) <= Len(state.deck)
          /\ cardCount(state') <= cardCount(state)
          /\ cardCount(state') < cardCount(state) =>
                 /\ state.phase = "attack"
                 /\ applyAction(state, attackerId, ActionDone).ok
                 /\ state' = applyAction(state, attackerId, ActionDone).state
                 /\ cardCount(state') = cardCount(state) - Len(tableCards(state.table))]_vars

\* two turns have been beaten off: four cards have left the game and the
\* cards still held are all different
C36_Witness ==
    /\ Cardinality(discard) >= 4
    /\ cardCount(state) = Cardinality(Card) - Cardinality(discard)
    /\ state.phase # "finished"

\* C37 the trump card is dealt first: in the state startGame returns,
\* trumpCard is in player 0's hand and not in the deck; trumpCard is the
\* last card of the shuffled deck and the deal has taken the cards from
\* that end, the deck being what is left at the front.
C37_TrumpCardDealt ==
    \A k \in 1..FullSeeds :
        (calls = 0 /\ state = startGame(HumanId, BotId, SeedValue(k))) =>
            /\ inHand(state.trumpCard, state.players[0].hand)
            /\ ~inHand(state.trumpCard, state.deck)
            /\ state.trumpCard = shuffled[Len(shuffled)]
            /\ state.deck = SubSeq(shuffled, 1, Len(state.deck))

\* a game just started: nothing played, both hands dealt, cards left in the
\* deck, and player 0 holds the trump card
C37_Witness ==
    /\ \E k \in 1..FullSeeds : state = startGame(HumanId, BotId, SeedValue(k))
    /\ Len(state.players[0].hand) = HAND_LIMIT
    /\ Len(state.players[1].hand) = HAND_LIMIT
    /\ Len(state.deck) > 0
    /\ inHand(state.trumpCard, state.players[0].hand)

\* C38 take is irrevocable: in every reachable state whose phase is throw
\* every defend action is rejected; an accepted attack leaves the phase
\* throw or finishes the game, an accepted take leaves it throw; the phase
\* is left only by an accepted done of the attacker or by a finish, and
\* never for phase defend; so no step of a game leads from phase throw to
\* another phase except a finish and the attacker's done.
C38_TakeIrrevocable ==
    /\ [](state.phase = "throw" =>
            \A p \in PlayerIds, a \in AllActions :
                \A r \in {applyAction(state, p, a)} :
                    /\ a.kind = "defend" => ~r.ok /\ r.state = state
                    /\ (r.ok /\ a.kind = "attack") => r.state.phase \in {"throw", "finished"}
                    /\ (r.ok /\ a.kind = "take") => r.state.phase = "throw"
                    /\ r.state.phase # "throw" =>
                           \/ r.state.phase = "finished"
                           \/ r.ok /\ a.kind = "done" /\ p = attackerId
                    /\ r.state.phase # "defend")
    /\ [][(state.phase = "throw" /\ state'.phase # "throw") =>
              \/ state'.phase = "finished"
              \/ state' = applyAction(state, attackerId, ActionDone).state]_vars

\* the defender has taken while holding a card that beats the open attack:
\* the defense that was legal before the take is rejected now
C38_Witness ==
    /\ state.phase = "throw"
    /\ \E i \in openSlots :
        \E c \in Range(defenderHand) :
            /\ beats(state.table[i].attack, c)
            /\ ~applyAction(state, state.players[state.defender].id,
                            ActionDefend(i - 1, c)).ok

\* C39 control takeover, as stated: in a running game an action message
\* from a connected client other than the client in control leaves the room
\* in the state the same action leaves it in as the human player's move: it
\* is accepted or rejected by the same rules and followed by the same bot
\* turns. (Refuted: the game still knows the human player under the id of
\* the client who started it, and the newcomer's action is rejected.)
C39_ControlTakeover ==
    state.phase # "finished" =>
        \A id \in Clients \ {roomHumanId}, a \in AllActions :
            onAction(state, id, a).state = onAction(state, state.players[0].id, a).state

\* C40 bounded bot turn: started in any reachable state, processBotTurns
\* ends without running out of its guard and has applied at most two bot
\* actions; when it has applied two, the first was a done and the second an
\* attack.
C40_BoundedBotTurn ==
    \A b \in {processBotTurns(state)} :
        /\ ~b.cap
        /\ b.applied <= 2
        /\ b.applied = 2 =>
               /\ botDecide(state) = ActionDone
               /\ botDecide(applyAction(state, BotId, ActionDone).state).kind = "attack"

\* the bot is the attacker after the defender has taken and throws in
\* nothing more: it finishes the turn and opens the next attack
C40_Witness ==
    /\ state.phase = "throw"
    /\ botIsAttacker
    /\ processBotTurns(state).applied = 2
    /\ processBotTurns(state).state.phase = "defend"

====
